---- MODULE Spec2Model ----
(***************************************************************************)
(* A model of scalc (src/scalc.cpp): the lexer, the recursive-descent      *)
(* parser, the AST evaluator, the `:` command tokenizer and the driver     *)
(* (process / main) that reads lines from the interactive stream and from  *)
(* sourced files.                                                          *)
(*                                                                         *)
(* Text is a sequence of one-character strings.  A double is an extended   *)
(* rational in sign-magnitude form [s, n, d]: n/d with d > 0 is a finite   *)
(* value (signed zero included), 1/0 is an infinity, 0/0 is NaN.  Rounding *)
(* and overflow of the 64-bit format are not modelled.  The result of a    *)
(* libm call that is not an exact rational is kept as an application term. *)
(***************************************************************************)
EXTENDS Integers, Sequences, FiniteSets, TLC

(***************************************************************************)
(* Characters and text                                                     *)
(***************************************************************************)
Digits == {"0", "1", "2", "3", "4", "5", "6", "7", "8", "9"}

Letters ==
  {"a", "b", "c", "d", "e", "f", "g", "h", "i", "j", "k", "l", "m",
   "n", "o", "p", "q", "r", "s", "t", "u", "v", "w", "x", "y", "z",
   "A", "B", "C", "D", "E", "F", "G", "H", "I", "J", "K", "L", "M",
   "N", "O", "P", "Q", "R", "S", "T", "U", "V", "W", "X", "Y", "Z"}

isdigit(ch) == ch \in Digits

isalpha(ch) == ch \in Letters

isalnum(ch) == isalpha(ch) \/ isdigit(ch)

isspace(ch) == ch \in {" ", "\t"}

DigitVal(ch) ==
  CASE ch = "0" -> 0 [] ch = "1" -> 1 [] ch = "2" -> 2 [] ch = "3" -> 3
    [] ch = "4" -> 4 [] ch = "5" -> 5 [] ch = "6" -> 6 [] ch = "7" -> 7
    [] ch = "8" -> 8 [] ch = "9" -> 9

\* A thrown std::exception; what() is msg followed by arg.
Throw(msg, arg) == [thrown |-> TRUE, what |-> [msg |-> msg, arg |-> arg]]

(***************************************************************************)
(* Doubles                                                                 *)
(***************************************************************************)
RECURSIVE GCD(_, _)
GCD(a, b) == IF b = 0 THEN a ELSE GCD(b, a % b)

NaN == [s |-> 1, n |-> 0, d |-> 0]

IsNaN(v) == v.n = 0 /\ v.d = 0

\* The canonical form of sign * num / den (num, den >= 0).
Norm(sign, num, den) ==
  IF num = 0 /\ den = 0 THEN NaN
  ELSE LET g == GCD(num, den)
       IN  [s |-> sign, n |-> num \div g, d |-> den \div g]

Num(k) == IF k < 0 THEN Norm(-1, -k, 1) ELSE Norm(1, k, 1)

IsRat(v) == "s" \in DOMAIN v

App(f, args) == [f |-> f, args |-> args]

Neg(v) ==
  IF ~IsRat(v) THEN App("neg", <<v>>)
  ELSE IF IsNaN(v) THEN NaN ELSE [v EXCEPT !.s = -v.s]

Mul(a, b) ==
  IF ~IsRat(a) \/ ~IsRat(b) THEN App("*", <<a, b>>)
  ELSE Norm(a.s * b.s, a.n * b.n, a.d * b.d)

Div(a, b) ==
  IF ~IsRat(a) \/ ~IsRat(b) THEN App("/", <<a, b>>)
  ELSE Norm(a.s * b.s, a.n * b.d, a.d * b.n)

Add(a, b) ==
  IF ~IsRat(a) \/ ~IsRat(b) THEN App("+", <<a, b>>)
  ELSE IF IsNaN(a) \/ IsNaN(b) THEN NaN
  ELSE IF a.d = 0 /\ b.d = 0 THEN (IF a.s = b.s THEN a ELSE NaN)
  ELSE IF a.d = 0 THEN a
  ELSE IF b.d = 0 THEN b
  ELSE LET num == a.s * a.n * b.d + b.s * b.n * a.d
           den == a.d * b.d
       IN  IF num = 0
           THEN Norm(IF a.s = -1 /\ b.s = -1 THEN -1 ELSE 1, 0, den)
           ELSE IF num < 0 THEN Norm(-1, -num, den) ELSE Norm(1, num, den)

Sub(a, b) ==
  IF ~IsRat(a) \/ ~IsRat(b) THEN App("-", <<a, b>>)
  ELSE Add(a, Neg(b))

(***************************************************************************)
(* std::stod on the text of a NUMBER token (digits and dots only): the     *)
(* longest prefix digits [ . digits ] with at least one digit is           *)
(* converted, the rest is ignored; no digit at all throws.                 *)
(***************************************************************************)
RECURSIVE DigitRun(_, _)
DigitRun(text, i) ==
  IF i <= Len(text) /\ isdigit(text[i]) THEN DigitRun(text, i + 1) ELSE i

RECURSIVE DecVal(_, _, _, _)
DecVal(text, i, j, acc) ==
  IF i >= j THEN acc ELSE DecVal(text, i + 1, j, acc * 10 + DigitVal(text[i]))

RECURSIVE Pow10(_)
Pow10(k) == IF k = 0 THEN 1 ELSE 10 * Pow10(k - 1)

stod(text) ==
  LET e1 == DigitRun(text, 1)
      hasDot == e1 <= Len(text) /\ text[e1] = "."
      e2 == IF hasDot THEN DigitRun(text, e1 + 1) ELSE e1
      nInt == e1 - 1
      nFrac == IF hasDot THEN e2 - e1 - 1 ELSE 0
  IN  IF nInt + nFrac = 0
      THEN Throw("stod", <<>>)
      ELSE [thrown |-> FALSE,
            value |-> Norm(1,
                           DecVal(text, 1, e1, 0) * Pow10(nFrac)
                             + (IF hasDot THEN DecVal(text, e1 + 1, e2, 0) ELSE 0),
                           Pow10(nFrac))]

(***************************************************************************)
(* Lexer                                                                   *)
(***************************************************************************)
Token(t, v) == [type |-> t, value |-> v]

RECURSIVE SkipSpace(_, _)
SkipSpace(input, pos) ==
  IF pos <= Len(input) /\ isspace(input[pos]) THEN SkipSpace(input, pos + 1)
  ELSE pos

RECURSIVE NumberRun(_, _)
NumberRun(input, pos) ==
  IF pos <= Len(input) /\ (isdigit(input[pos]) \/ input[pos] = ".")
  THEN NumberRun(input, pos + 1) ELSE pos

RECURSIVE IdentRun(_, _)
IdentRun(input, pos) ==
  IF pos <= Len(input) /\ (isalnum(input[pos]) \/ input[pos] = "_")
  THEN IdentRun(input, pos + 1) ELSE pos

\* Lexer::getNextToken from cursor pos (1-based): the token and the new
\* cursor, or the exception thrown.
getNextToken(input, pos) ==
  LET p == SkipSpace(input, pos)
  IN  IF p > Len(input)
      THEN [thrown |-> FALSE, tok |-> Token("END", <<>>), pos |-> p]
      ELSE LET ch == input[p]
           IN  IF isdigit(ch) \/ ch = "."
               THEN LET e == NumberRun(input, p)
                    IN  [thrown |-> FALSE,
                         tok |-> Token("NUMBER", SubSeq(input, p, e - 1)),
                         pos |-> e]
               ELSE IF isalpha(ch)
               THEN LET e == IdentRun(input, p)
                    IN  [thrown |-> FALSE,
                         tok |-> Token("IDENTIFIER", SubSeq(input, p, e - 1)),
                         pos |-> e]
               ELSE IF ch \in {"+", "-", "*", "/", "(", ")", "=", ","}
               THEN [thrown |-> FALSE,
                     tok |-> Token(CASE ch = "+" -> "PLUS"
                                     [] ch = "-" -> "MINUS"
                                     [] ch = "*" -> "MULTIPLY"
                                     [] ch = "/" -> "DIVIDE"
                                     [] ch = "(" -> "LPAREN"
                                     [] ch = ")" -> "RPAREN"
                                     [] ch = "=" -> "EQUAL"
                                     [] ch = "," -> "COMMA", <<>>),
                     pos |-> p + 1]
               ELSE Throw("Unexpected character: ", <<ch>>)

(***************************************************************************)
(* AST nodes                                                               *)
(***************************************************************************)
NumberNode(v) == [node |-> "Number", value |-> v]

VariableNode(n) == [node |-> "Variable", name |-> n]

AssignmentNode(n, v) == [node |-> "Assignment", name |-> n, value |-> v]

FunctionCallNode(name, args) ==
  [node |-> "FunctionCall", functionName |-> name, arguments |-> args]

UnaryOpNode(o, expr) == [node |-> "UnaryOp", op |-> o, operand |-> expr]

BinaryOpNode(o, l, r) == [node |-> "BinaryOp", op |-> o, left |-> l, right |-> r]

(***************************************************************************)
(* Parser.  The parser state st is [pos, curtToken]: the lexer's cursor    *)
(* and the one token of lookahead.  Every parse function returns either    *)
(* [thrown |-> FALSE, node, st] or the exception thrown.                   *)
(***************************************************************************)
Parsed(node, st) == [thrown |-> FALSE, node |-> node, st |-> st]

\* The parser state once the lexer has returned t, or t's exception.
Advance(t) ==
  IF t.thrown THEN t
  ELSE [thrown |-> FALSE, st |-> [pos |-> t.pos, curtToken |-> t.tok]]

\* Parser::consume: the state after the lookahead is replaced, or a throw.
consume(input, st, type) ==
  IF st.curtToken.type = type
  THEN Advance(getNextToken(input, st.pos))
  ELSE Throw("Unexpected token: ", st.curtToken.value)

\* Parser::Parser: the lexer at the start of expr, the first token read.
ParserInit(expr) == Advance(getNextToken(expr, 1))

\* `return new ...Node(...)` once the consume c before it has returned.
WithNode(node, c) == IF c.thrown THEN c ELSE Parsed(node, c.st)

\* new BinaryOpNode(op, node, r) for the right operand parse r.
BinaryRight(op, node, r) ==
  IF r.thrown THEN r ELSE Parsed(BinaryOpNode(op, node, r.node), r.st)

\* new UnaryOpNode(MINUS, r) for the operand parse r.
UnaryOperand(r) ==
  IF r.thrown THEN r ELSE Parsed(UnaryOpNode("MINUS", r.node), r.st)

\* new AssignmentNode(name, r) for the right-hand side parse r.
AssignmentValue(name, r) ==
  IF r.thrown THEN r ELSE Parsed(AssignmentNode(name, r.node), r.st)

\* std::stod(curtToken.value), then consume(NUMBER), then the node.
NumberFactor(value, c) ==
  IF value.thrown THEN value
  ELSE IF c.thrown THEN c
  ELSE Parsed(NumberNode(value.value), c.st)

RECURSIVE parseExpression(_, _), parseExpressionLoop(_, _),
          parseExpressionAfter(_, _),
          parseTerm(_, _), parseTermLoop(_, _), parseTermAfter(_, _),
          parseFactor(_, _), parseFactorAfter(_, _),
          IdentifierFactor(_, _, _), CloseParen(_, _),
          parseFunctionCall(_, _, _), parseArgumentList(_, _),
          parseArguments(_, _, _), MoreArguments(_, _, _),
          parseArgumentsAfter(_, _, _), CallNode(_, _, _)

\* parseExpression() called after the consume c.
parseExpressionAfter(input, c) ==
  IF c.thrown THEN c ELSE parseExpression(input, c.st)

\* The right operand of + and - parsed as a whole expression.
parseTermAfterRightAssoc(input, c) ==
  IF c.thrown THEN c ELSE parseExpression(input, c.st)

\* parseTerm() called after the consume c.
parseTermAfter(input, c) ==
  IF c.thrown THEN c ELSE parseTerm(input, c.st)

\* parseFactor() called after the consume c.
parseFactorAfter(input, c) ==
  IF c.thrown THEN c ELSE parseFactor(input, c.st)

parseExpression(input, st) ==
  parseExpressionLoop(input, parseTerm(input, st))

\* The while loop of parseExpression; r holds the tree built so far and
\* the parser state after it.
parseExpressionLoop(input, r) ==
  IF r.thrown THEN r
  ELSE IF r.st.curtToken.type \in {"PLUS", "MINUS"}
  THEN parseExpressionLoop(
         input,
         BinaryRight(r.st.curtToken.type, r.node,
                     parseTermAfter(input,
                                    consume(input, r.st, r.st.curtToken.type))))
  ELSE r

parseTerm(input, st) ==
  parseTermLoop(input, parseFactor(input, st))

\* The while loop of parseTerm.
parseTermLoop(input, r) ==
  IF r.thrown THEN r
  ELSE IF r.st.curtToken.type \in {"MULTIPLY", "DIVIDE"}
  THEN parseTermLoop(
         input,
         BinaryRight(r.st.curtToken.type, r.node,
                     parseFactorAfter(input,
                                      consume(input, r.st, r.st.curtToken.type))))
  ELSE r

parseFactor(input, st) ==
  IF st.curtToken.type = "MINUS"
  THEN UnaryOperand(parseFactorAfter(input, consume(input, st, "MINUS")))
  ELSE IF st.curtToken.type = "NUMBER"
  THEN NumberFactor(stod(st.curtToken.value), consume(input, st, "NUMBER"))
  ELSE IF st.curtToken.type = "IDENTIFIER"
  THEN IdentifierFactor(input, st.curtToken.value,
                        consume(input, st, "IDENTIFIER"))
  ELSE IF st.curtToken.type = "LPAREN"
  THEN CloseParen(input,
                  parseExpressionAfter(input, consume(input, st, "LPAREN")))
  ELSE Throw("Unexpected token: ", st.curtToken.value)

\* IdentifierFactor with the right-hand side of `=` parsed as a term.
IdentifierFactorTermOnly(input, name, c) ==
  IF c.thrown THEN c
  ELSE IF c.st.curtToken.type = "LPAREN"
  THEN parseFunctionCall(input, c.st, name)
  ELSE IF c.st.curtToken.type = "EQUAL"
  THEN AssignmentValue(
         name, parseTermAfter(input, consume(input, c.st, "EQUAL")))
  ELSE Parsed(VariableNode(name), c.st)

\* The IDENTIFIER branch of parseFactor after consume(IDENTIFIER) = c.
IdentifierFactor(input, name, c) ==
  IF c.thrown THEN c
  ELSE IF c.st.curtToken.type = "LPAREN"
  THEN parseFunctionCall(input, c.st, name)
  ELSE IF c.st.curtToken.type = "EQUAL"
  THEN AssignmentValue(
         name, parseExpressionAfter(input, consume(input, c.st, "EQUAL")))
  ELSE Parsed(VariableNode(name), c.st)

\* The LPAREN branch of parseFactor after parseExpression() = r.
CloseParen(input, r) ==
  IF r.thrown THEN r ELSE WithNode(r.node, consume(input, r.st, "RPAREN"))

parseFunctionCall(input, st, funcName) ==
  CallNode(input, funcName,
           parseArgumentList(input, consume(input, st, "LPAREN")))

\* parseFunctionCall after consume(LPAREN) = c: the argument list, as node.
parseArgumentList(input, c) ==
  IF c.thrown THEN c
  ELSE IF c.st.curtToken.type # "RPAREN"
  THEN parseArguments(input, c.st, <<>>)
  ELSE Parsed(<<>>, c.st)

\* One iteration of the do-while loop of parseFunctionCall, args being the
\* arguments collected so far.
parseArguments(input, st, args) ==
  MoreArguments(input, args, parseExpression(input, st))

MoreArguments(input, args, r) ==
  IF r.thrown THEN r
  ELSE IF r.st.curtToken.type = "COMMA"
  THEN parseArgumentsAfter(input, Append(args, r.node),
                           consume(input, r.st, "COMMA"))
  ELSE Parsed(Append(args, r.node), r.st)

parseArgumentsAfter(input, args, c) ==
  IF c.thrown THEN c ELSE parseArguments(input, c.st, args)

\* parseFunctionCall after the argument list a: consume(RPAREN), the node.
CallNode(input, funcName, a) ==
  IF a.thrown THEN a
  ELSE WithNode(FunctionCallNode(funcName, a.node),
                consume(input, a.st, "RPAREN"))

(***************************************************************************)
(* libm                                                                    *)
(***************************************************************************)
Unary ==
  {"sin", "cos", "tan", "asin", "acos", "atan",
   "sinh", "cosh", "tanh", "asinh", "acosh", "atanh",
   "sqrt", "cbrt", "exp", "ln", "log10", "log2", "abs"}

\* The built-in that a function name spells, "?" for any other name.
FnName(name) ==
  CASE name = <<"s", "i", "n">> -> "sin"
    [] name = <<"c", "o", "s">> -> "cos"
    [] name = <<"t", "a", "n">> -> "tan"
    [] name = <<"a", "s", "i", "n">> -> "asin"
    [] name = <<"a", "c", "o", "s">> -> "acos"
    [] name = <<"a", "t", "a", "n">> -> "atan"
    [] name = <<"s", "i", "n", "h">> -> "sinh"
    [] name = <<"c", "o", "s", "h">> -> "cosh"
    [] name = <<"t", "a", "n", "h">> -> "tanh"
    [] name = <<"a", "s", "i", "n", "h">> -> "asinh"
    [] name = <<"a", "c", "o", "s", "h">> -> "acosh"
    [] name = <<"a", "t", "a", "n", "h">> -> "atanh"
    [] name = <<"s", "q", "r", "t">> -> "sqrt"
    [] name = <<"c", "b", "r", "t">> -> "cbrt"
    [] name = <<"e", "x", "p">> -> "exp"
    [] name = <<"l", "n">> -> "ln"
    [] name = <<"l", "o", "g", "1", "0">> -> "log10"
    [] name = <<"l", "o", "g", "2">> -> "log2"
    [] name = <<"a", "b", "s">> -> "abs"
    [] name = <<"l", "o", "g">> -> "log"
    [] name = <<"p", "o", "w">> -> "pow"
    [] name = <<"m", "o", "d">> -> "mod"
    [] OTHER -> "?"

\* std::abs is exact; the other one-argument functions stay as terms.
Libm1(f, v) ==
  IF f = "abs" /\ IsRat(v) THEN [v EXCEPT !.s = 1] ELSE App(f, <<v>>)

RECURSIVE IntPow(_, _)
IntPow(a, k) == IF k = 0 THEN Num(1) ELSE Mul(IntPow(a, k - 1), a)

\* std::pow, exact for an exponent that is a natural number.
Pow(a, b) ==
  IF IsRat(a) /\ IsRat(b) /\ b.d = 1 /\ (b.s = 1 \/ b.n = 0)
  THEN IntPow(a, b.n)
  ELSE App("pow", <<a, b>>)

\* std::fmod: a - trunc(a / b) * b, with the sign of a.
Fmod(a, b) ==
  IF ~IsRat(a) \/ ~IsRat(b) THEN App("fmod", <<a, b>>)
  ELSE IF IsNaN(a) \/ IsNaN(b) \/ a.d = 0 \/ b.n = 0 THEN NaN
  ELSE IF b.d = 0 THEN a
  ELSE Norm(a.s, (a.n * b.d) % (b.n * a.d), a.d * b.d)

(***************************************************************************)
(* Evaluation.  Eval returns [thrown, val, vars] where vars is the         *)
(* environment as the evaluation left it, also when it threw.  ord gives,  *)
(* for each two-argument built-in, which of the two argument evaluations   *)
(* in its C++ call expression runs first; C++ leaves that order to the     *)
(* build.                                                                  *)
(***************************************************************************)
ArgOrders == [{"log", "pow", "mod"} -> {0, 1}]

Value(v, vars) == [thrown |-> FALSE, val |-> v, vars |-> vars]

Raise(msg, arg, vars) ==
  [thrown |-> TRUE, what |-> [msg |-> msg, arg |-> arg], vars |-> vars]

\* Bind into an environment that keeps the assigned name only.
BindAlone(vars, name, val) == (name :> val)

\* The binding of name after `variables[name] = val`.
Bind(vars, name, val) == (name :> val) @@ vars

RECURSIVE Eval(_, _, _)

LogOp(x, base) == Div(Libm1("ln", x), Libm1("ln", base))

\* The two-argument built-in f applied to the values of its two argument
\* evaluations, in the order they are written in the C++ call expression.
Call2(f, a, b) ==
  CASE f = "log" -> LogOp(a, b)
    [] f = "pow" -> Pow(a, b)
    [] f = "mod" -> Fmod(a, b)

\* The two argument evaluations x, y of the call expression of f, the one
\* that ord[f] names first.
Eval2(f, x, y, vars, ord) ==
  IF ord[f] = 0
  THEN LET a == Eval(x, vars, ord)
       IN  IF a.thrown THEN a
           ELSE LET b == Eval(y, a.vars, ord)
                IN  IF b.thrown THEN b
                    ELSE Value(Call2(f, a.val, b.val), b.vars)
  ELSE LET b == Eval(y, vars, ord)
       IN  IF b.thrown THEN b
           ELSE LET a == Eval(x, b.vars, ord)
                IN  IF a.thrown THEN a
                    ELSE Value(Call2(f, a.val, b.val), a.vars)

NumberNodeEvaluate(node, vars) == Value(node.value, vars)

\* VariableNodeEvaluate with the lookup of operator[]: an absent name is
\* inserted with the value 0.
VariableNodeEvaluateDefault(node, vars) ==
  IF node.name \notin DOMAIN vars
  THEN Value(Num(0), Bind(vars, node.name, Num(0)))
  ELSE Value(vars[node.name], vars)

VariableNodeEvaluate(node, vars) ==
  IF node.name \notin DOMAIN vars
  THEN Raise("Undefined variable: ", node.name, vars)
  ELSE Value(vars[node.name], vars)

AssignmentNodeEvaluate(node, vars, ord) ==
  LET val == Eval(node.value, vars, ord)
  IN  IF val.thrown THEN val
      ELSE Value(val.val, Bind(val.vars, node.name, val.val))

\* FunctionCallNodeEvaluate with the first argument evaluated before the
\* name and the argument count are found to match no built-in.
FunctionCallNodeEvaluateEager(node, vars, ord) ==
  LET f == FnName(node.functionName)
      arguments == node.arguments
  IN  IF Len(arguments) = 1 /\ f \in Unary
      THEN LET a == Eval(arguments[1], vars, ord)
           IN  IF a.thrown THEN a ELSE Value(Libm1(f, a.val), a.vars)
      ELSE IF Len(arguments) = 2 /\ f = "log"
      THEN Eval2("log", arguments[2], arguments[1], vars, ord)
      ELSE IF Len(arguments) = 2 /\ f = "pow"
      THEN Eval2("pow", arguments[1], arguments[2], vars, ord)
      ELSE IF Len(arguments) = 2 /\ f = "mod"
      THEN Eval2("mod", arguments[1], arguments[2], vars, ord)
      ELSE IF arguments = <<>>
      THEN Raise("Unknown function: ", node.functionName, vars)
      ELSE LET a == Eval(arguments[1], vars, ord)
           IN  IF a.thrown THEN a
               ELSE Raise("Unknown function: ", node.functionName, a.vars)

FunctionCallNodeEvaluate(node, vars, ord) ==
  LET f == FnName(node.functionName)
      arguments == node.arguments
  IN  IF Len(arguments) = 1 /\ f \in Unary
      THEN LET a == Eval(arguments[1], vars, ord)
           IN  IF a.thrown THEN a ELSE Value(Libm1(f, a.val), a.vars)
      ELSE IF Len(arguments) = 2 /\ f = "log"
      THEN Eval2("log", arguments[2], arguments[1], vars, ord)
      ELSE IF Len(arguments) = 2 /\ f = "pow"
      THEN Eval2("pow", arguments[1], arguments[2], vars, ord)
      ELSE IF Len(arguments) = 2 /\ f = "mod"
      THEN Eval2("mod", arguments[1], arguments[2], vars, ord)
      ELSE Raise("Unknown function: ", node.functionName, vars)

UnaryOpNodeEvaluate(node, vars, ord) ==
  LET val == Eval(node.operand, vars, ord)
  IN  IF val.thrown THEN val
      ELSE IF node.op = "MINUS" THEN Value(Neg(val.val), val.vars)
      ELSE Raise("Invalid unary operator", <<>>, val.vars)

BinaryOpNodeEvaluate(node, vars, ord) ==
  LET lval == Eval(node.left, vars, ord)
  IN  IF lval.thrown THEN lval
      ELSE LET rval == Eval(node.right, lval.vars, ord)
           IN  IF rval.thrown THEN rval
               ELSE CASE node.op = "PLUS" ->
                           Value(Add(lval.val, rval.val), rval.vars)
                      [] node.op = "MINUS" ->
                           Value(Sub(lval.val, rval.val), rval.vars)
                      [] node.op = "MULTIPLY" ->
                           Value(Mul(lval.val, rval.val), rval.vars)
                      [] node.op = "DIVIDE" ->
                           Value(Div(lval.val, rval.val), rval.vars)
                      [] OTHER -> Raise("Invalid operator", <<>>, rval.vars)

\* The virtual call node->evaluate(variables).
Eval(node, vars, ord) ==
  CASE node.node = "Number" -> NumberNodeEvaluate(node, vars)
    [] node.node = "Variable" -> VariableNodeEvaluate(node, vars)
    [] node.node = "Assignment" -> AssignmentNodeEvaluate(node, vars, ord)
    [] node.node = "FunctionCall" -> FunctionCallNodeEvaluate(node, vars, ord)
    [] node.node = "UnaryOp" -> UnaryOpNodeEvaluate(node, vars, ord)
    [] node.node = "BinaryOp" -> BinaryOpNodeEvaluate(node, vars, ord)

\* Parser parser(line); parser.parseExpression()
Parse(line) == parseExpressionAfter(line, ParserInit(line))

\* Evaluate with Ans reset when the line does not parse.
EvaluateResetAns(expr, vars, ord) ==
  IF expr.thrown
  THEN Raise(expr.what.msg, expr.what.arg, Bind(vars, <<"A", "n", "s">>, Num(0)))
  ELSE Eval(expr.node, vars, ord)

\* Evaluate with the environment restored when the evaluation throws.
EvaluateRollback(expr, vars, ord) ==
  IF expr.thrown THEN Raise(expr.what.msg, expr.what.arg, vars)
  ELSE IF Eval(expr.node, vars, ord).thrown
  THEN [Eval(expr.node, vars, ord) EXCEPT !.vars = vars]
  ELSE Eval(expr.node, vars, ord)

\* expr->evaluate(variables) for the parse result expr: an exception of the
\* parser leaves variables as they were.
Evaluate(expr, vars, ord) ==
  IF expr.thrown THEN Raise(expr.what.msg, expr.what.arg, vars)
  ELSE Eval(expr.node, vars, ord)

\* calculate(line, variables): parse the line's expression, then evaluate
\* the tree.
calculate(line, vars, ord) == Evaluate(Parse(line), vars, ord)

(***************************************************************************)
(* commandsDivide: the `:` command tokenizer.                              *)
(***************************************************************************)
\* DivideStep with a backslash inside quotes taken as an ordinary character.
DivideStepLiteralBackslash(st, c) ==
  IF st.escape
  THEN [st EXCEPT !.term = Append(@, c), !.escape = FALSE]
  ELSE IF c = "\\" /\ ~st.in_quotes
  THEN [st EXCEPT !.escape = TRUE]
  ELSE IF c \in {"\"", "'"}
  THEN IF st.in_quotes
       THEN IF c = st.quote_char
            THEN [st EXCEPT !.in_quotes = FALSE, !.quote_char = ""]
            ELSE [st EXCEPT !.term = Append(@, c)]
       ELSE [st EXCEPT !.in_quotes = TRUE, !.quote_char = c]
  ELSE IF c = " " /\ ~st.in_quotes
  THEN IF st.term # <<>>
       THEN [st EXCEPT !.terms = Append(@, st.term), !.term = <<>>]
       ELSE st
  ELSE [st EXCEPT !.term = Append(@, c)]

\* One iteration of the for loop on character c; st holds the locals
\* terms, term, in_quotes, quote_char ("" for '\0') and escape.
DivideStep(st, c) ==
  IF st.escape
  THEN [st EXCEPT !.term = Append(@, c), !.escape = FALSE]
  ELSE IF c = "\\"
  THEN [st EXCEPT !.escape = TRUE]
  ELSE IF c \in {"\"", "'"}
  THEN IF st.in_quotes
       THEN IF c = st.quote_char
            THEN [st EXCEPT !.in_quotes = FALSE, !.quote_char = ""]
            ELSE [st EXCEPT !.term = Append(@, c)]
       ELSE [st EXCEPT !.in_quotes = TRUE, !.quote_char = c]
  ELSE IF c = " " /\ ~st.in_quotes
  THEN IF st.term # <<>>
       THEN [st EXCEPT !.terms = Append(@, st.term), !.term = <<>>]
       ELSE st
  ELSE [st EXCEPT !.term = Append(@, c)]

RECURSIVE DivideLoop(_, _, _)
DivideLoop(remaining, i, st) ==
  IF i > Len(remaining) THEN st
  ELSE DivideLoop(remaining, i + 1, DivideStep(st, remaining[i]))

\* [thrown |-> FALSE, terms] or the exception thrown.
commandsDivide(input) ==
  IF input = <<>> \/ input[1] # ":"
  THEN [thrown |-> FALSE, terms |-> <<>>]
  ELSE LET remaining == Tail(input)
           st == DivideLoop(remaining, 1,
                            [terms |-> <<>>, term |-> <<>>, in_quotes |-> FALSE,
                             quote_char |-> "", escape |-> FALSE])
       IN  IF st.in_quotes
           THEN Throw("Unclosed quote in input string.", <<>>)
           ELSE [thrown |-> FALSE,
                 terms |-> IF st.term # <<>> THEN Append(st.terms, st.term)
                           ELSE st.terms]

(***************************************************************************)
(* The texts the model runs on: file paths, file contents, input lines.    *)
(***************************************************************************)
Ans == <<"A", "n", "s">>

InitScalc == <<"i", "n", "i", "t", ".", "s", "c", "a", "l", "c">>

PathS == <<"s">>

PathD == <<"d">>

PathE == <<"e">>

PathA == <<"a">>

PathB == <<"b">>

PathC == <<"c">>

LEmpty == <<>>

LAssign == <<"x", " ", "=", " ", "7">>

LSyntax == <<"1", " ", "+">>

LPartial == <<"(", "x", " ", "=", " ", "5", ")", " ", "+", " ", "y">>

LReadZ == <<"z">>

LSource == <<":", "f", "i", "l", "e", " ", "n", "o", "f", "i", "l", "e", " ", "e">>

LUnclosed == <<":", "f", "i", "l", "e", " ", "\"", "d">>

LExit == <<":", "e", "x", "i", "t">>

LHelp == <<":", "h">>

LSourceA == <<":", "f", "i", "l", "e", " ", "a">>

LSourceB == <<":", "f", " ", "b">>

LSourceC == <<":", "f", " ", "c">>

LSourceD == <<":", "f", " ", "d">>

LIncr == <<"A", "n", "s", " ", "+", " ", "1">>

LZ == <<"z", " ", "=", " ", "x", " ", "+", " ", "1">>

LX1 == <<"x", " ", "=", " ", "1">>

LX2 == <<"x", " ", "=", " ", "2">>

LW3 == <<"w", " ", "=", " ", "3">>

LW4 == <<"w", " ", "=", " ", "4">>

\* The line passed to calculate as it is.
AnsPrefixMissing == <<>>

AnsPrefix == <<"A", "n", "s", " ", "=", " ">>

EPrec == <<"1", " ", "+", " ", "2", " ", "*", " ", "3">>

ELeft == <<"2", " ", "-", " ", "3", " ", "-", " ", "4">>

ENegNeg == <<"-", "-", "3">>

EOpenParen == <<"(", "1", " ", "+", " ", "2">>

ECloseParen == <<"1", " ", "+", " ", "2", ")">>

EOnlyClose == <<")">>

EOpenTwice == <<"(", "(", "2", ")">>

EAssignOpen == <<"x", " ", "=", " ", "(", "1", " ", "+", " ", "2">>

ECallOpen == <<"s", "i", "n", "(", "1">>

ECallClose == <<"p", "o", "w", "(", "2", ",", " ", "3", ")", ")">>

EXPlusY == <<"x", " ", "=", " ", "5", " ", "+", " ", "y">>

EChain == <<"a", " ", "=", " ", "b", " ", "=", " ", "3">>

EInfix == <<"1", " ", "+", " ", "x", " ", "=", " ", "2", " ", "+", " ", "3">>

EBadChar == <<"1", " ", "$", " ", "2">>

EDot == <<".">>

EPowOne == <<"p", "o", "w", "(", "2", ")">>

EPowAssign == <<"p", "o", "w", "(", "x", " ", "=", " ", "1", ",", " ", "x", " ", "=", " ", "2", ")">>

ETwice == <<"(", "x", " ", "=", " ", "1", ")", " ", "+", " ", "(", "x", " ", "=", " ", "2", ")">>

EReadY == <<"y">>

EUnknown == <<"f", "o", "o", "(", "q", " ", "=", " ", "1", ")">>

EUnknownY == <<"s", "i", "n", "(", "2", ",", " ", "y", ")">>

ELog == <<"l", "o", "g", "(", "2", ",", " ", "8", ")">>

EDivZero == <<"x", " ", "=", " ", "1", " ", "/", " ", "0">>

EAnsAssign == <<"A", "n", "s", " ", "=", " ", "4">>

EAnsIncr == <<"A", "n", "s", " ", "+", " ", "1">>

LY3 == <<"y", " ", "=", " ", "3">>

ExprLines ==
  {EPrec, ELeft, ENegNeg, EOpenParen, ECloseParen,
   EOnlyClose, EOpenTwice, EAssignOpen, ECallOpen, ECallClose,
   EXPlusY, EChain, EInfix, EBadChar, EDot,
   EPowOne, EPowAssign, ETwice, EReadY, EUnknown,
   EUnknownY, ELog, EDivZero, EAnsAssign, EAnsIncr}

\* The files that can be opened, and their lines.  a sources itself, b and
\* c source each other; every other path fails to open.
FS ==
  (PathS :> <<LW3, LExit, LW4>>) @@
  (PathD :> <<LZ>>) @@
  (PathE :> <<LX1, LSourceD, LExit, LX2>>) @@
  (PathA :> <<LSourceA, LIncr>>) @@
  (PathB :> <<LSourceC, LIncr>>) @@
  (PathC :> <<LEmpty, LSourceB>>)

(***************************************************************************)
(* The driver: main and process.                                           *)
(*                                                                         *)
(* stack is the chain of active process calls, innermost last.  A frame    *)
(* holds the call's parameters (write, depth, and the path of its stream:  *)
(* the interactive call, the one with write set, reads cin) and its        *)
(* locals: pos, the number of lines read from the stream; pc, "read" at    *)
(* the top of the do-while loop and "file" inside the for loop of a        *)
(* `:file` command; terms and i, the locals of that for loop.              *)
(***************************************************************************)
VARIABLES
  variables,  \* main's umapsd variables, shared by every process call
  opts,       \* Options: once and files
  cin,        \* the lines of the interactive stream
  stack,      \* the active process calls
  main,       \* where main is: pc and k, the index of the next startup file
  cout,       \* what was written to std::cout
  cerr        \* what was written to std::cerr

vars == <<variables, opts, cin, stack, main, cout, cerr>>

MAX_DEPTH == 128

MaxLines == 3

MaxDepthLines == 1

Top == stack[Len(stack)]

Pop == SubSeq(stack, 1, Len(stack) - 1)

Content(f) == IF f.write THEN cin ELSE FS[f.path]

Frame(path, write, depth) ==
  [path |-> path, write |-> write, depth |-> depth,
   pos |-> 0, pc |-> "read", terms |-> <<>>, i |-> 0]

\* processEnter with the depth test off by one.
processEnterOffByOne(stk, path, write, depth) ==
  IF MAX_DEPTH + 1 < depth THEN stk ELSE Append(stk, Frame(path, write, depth))

\* The stack after the call process(stream, write, variables, opts, depth)
\* is entered from the stack stk: above the depth cap the call returns at
\* once.
processEnter(stk, path, write, depth) ==
  IF MAX_DEPTH < depth THEN stk ELSE Append(stk, Frame(path, write, depth))

\* The stack once the top frame, now f, has reached the end of the body of
\* the do-while loop (by continue or by falling through): the loop goes on
\* while (not opts.once || not write).
loopCondition(f) ==
  IF ~opts.once \/ ~f.write
  THEN Append(Pop, [f EXCEPT !.pc = "read", !.terms = <<>>, !.i = 0])
  ELSE Pop

Prompt(f) == IF f.write THEN Append(cout, [out |-> "> "]) ELSE cout

AtRead == stack # <<>> /\ Top.pc = "read"

NextLine == Content(Top)[Top.pos + 1]

\* std::getline fails at the end of the stream: break.
ReadEOF ==
  /\ AtRead
  /\ Top.pos = Len(Content(Top))
  /\ cout' = Prompt(Top)
  /\ stack' = Pop
  /\ UNCHANGED <<variables, opts, cin, main, cerr>>

\* An empty line: continue.
ReadEmpty ==
  /\ AtRead
  /\ Top.pos < Len(Content(Top))
  /\ NextLine = <<>>
  /\ cout' = Prompt(Top)
  /\ stack' = loopCondition([Top EXCEPT !.pos = @ + 1])
  /\ UNCHANGED <<variables, opts, cin, main, cerr>>

\* TryCatch with Ans set to 0 when the line throws.
TryCatchClearAns(result, f) ==
  /\ variables' = IF result.thrown
                  THEN Bind(result.vars, <<"A", "n", "s">>, Num(0))
                  ELSE result.vars
  /\ IF result.thrown
     THEN /\ cerr' = Append(cerr, [text |-> "Error: ", what |-> result.what])
          /\ cout' = Prompt(f)
     ELSE /\ cerr' = cerr
          /\ cout' = IF f.write
                     THEN Append(Prompt(f),
                                 [out |-> "Ans: ", value |-> result.val])
                     ELSE cout

\* TryCatch for a process that works on its own copy of the environment in
\* a sourced file.
TryCatchOnCopy(result, f) ==
  /\ variables' = IF f.write THEN result.vars ELSE variables
  /\ IF result.thrown
     THEN /\ cerr' = Append(cerr, [text |-> "Error: ", what |-> result.what])
          /\ cout' = Prompt(f)
     ELSE /\ cerr' = cerr
          /\ cout' = IF f.write
                     THEN Append(Prompt(f),
                                 [out |-> "Ans: ", value |-> result.val])
                     ELSE cout

\* What process does with the result d of commandsDivide(line), f being
\* the frame after the line is read.  An exception of commandsDivide is
\* thrown outside the try block: it leaves every process call and main.
Dispatch(d, f) ==
  IF d.thrown
  THEN /\ stack' = <<>>
       /\ main' = [main EXCEPT !.pc = "terminated"]
       /\ cout' = Prompt(f)
  ELSE /\ main' = main
       /\ IF d.terms = <<>>
          THEN /\ stack' = loopCondition(f)
               /\ cout' = Prompt(f)
          ELSE IF d.terms[1] \in {<<"e">>, <<"e", "x", "i", "t">>}
          THEN /\ stack' = Pop
               /\ cout' = Prompt(f)
          ELSE /\ cout' = IF d.terms[1] \in {<<"h">>, <<"h", "e", "l", "p">>}
                             /\ f.write
                          THEN Append(Prompt(f), [out |-> "help"])
                          ELSE Prompt(f)
               /\ IF d.terms[1] \in {<<"f">>, <<"f", "i", "l", "e">>}
                  THEN stack' = Append(Pop, [f EXCEPT !.pc = "file",
                                                      !.terms = d.terms,
                                                      !.i = 2])
                  ELSE stack' = loopCondition(f)

\* A line that starts with `:`.
ReadCommand ==
  /\ AtRead
  /\ Top.pos < Len(Content(Top))
  /\ NextLine # <<>>
  /\ NextLine[1] = ":"
  /\ Dispatch(commandsDivide(NextLine), [Top EXCEPT !.pos = @ + 1])
  /\ UNCHANGED <<variables, opts, cin, cerr>>

\* One iteration of the for loop over the paths of a `:file` command, or
\* its end (continue).
SourceFile ==
  /\ stack # <<>>
  /\ Top.pc = "file"
  /\ IF Top.i <= Len(Top.terms)
     THEN LET f == [Top EXCEPT !.i = @ + 1]
              path == Top.terms[Top.i]
          IN  IF path \in DOMAIN FS
              THEN /\ stack' = processEnter(Append(Pop, f), path, FALSE,
                                            Top.depth + 1)
                   /\ cerr' = cerr
              ELSE /\ stack' = Append(Pop, f)
                   /\ cerr' = Append(cerr,
                                     [text |-> "Error: Cannot open file ",
                                      what |-> [msg |-> "", arg |-> path]])
     ELSE /\ stack' = loopCondition(Top)
          /\ cerr' = cerr
  /\ UNCHANGED <<variables, opts, cin, main, cout>>

\* The try block around calculate, result being what calculate returned
\* or threw.
TryCatch(result, f) ==
  /\ variables' = result.vars
  /\ IF result.thrown
     THEN /\ cerr' = Append(cerr, [text |-> "Error: ", what |-> result.what])
          /\ cout' = Prompt(f)
     ELSE /\ cerr' = cerr
          /\ cout' = IF f.write
                     THEN Append(Prompt(f),
                                 [out |-> "Ans: ", value |-> result.val])
                     ELSE cout

\* Any other line: calculate("Ans = " + line, variables) inside the try
\* block.
ReadExpression ==
  /\ AtRead
  /\ Top.pos < Len(Content(Top))
  /\ NextLine # <<>>
  /\ NextLine[1] # ":"
  /\ \E ord \in ArgOrders :
       TryCatch(calculate(AnsPrefix \o NextLine, variables, ord), Top)
  /\ stack' = loopCondition([Top EXCEPT !.pos = @ + 1])
  /\ UNCHANGED <<opts, cin, main>>

\* main's loop over opts.files: a file that opens is processed, one that
\* does not is skipped.
MainStartupFile ==
  /\ stack = <<>>
  /\ main.pc = "files"
  /\ main.k <= Len(opts.files)
  /\ main' = [main EXCEPT !.k = @ + 1]
  /\ stack' = IF opts.files[main.k] \in DOMAIN FS
              THEN processEnter(stack, opts.files[main.k], FALSE, 0)
              ELSE stack
  /\ UNCHANGED <<variables, opts, cin, cout, cerr>>

\* process(std::cin, true, variables, opts, 0)
MainInteractive ==
  /\ stack = <<>>
  /\ main.pc = "files"
  /\ main.k > Len(opts.files)
  /\ main' = [main EXCEPT !.pc = "interactive"]
  /\ stack' = processEnter(stack, <<>>, TRUE, 0)
  /\ UNCHANGED <<variables, opts, cin, cout, cerr>>

\* return 0
MainReturn ==
  /\ stack = <<>>
  /\ main.pc = "interactive"
  /\ main' = [main EXCEPT !.pc = "done"]
  /\ UNCHANGED <<variables, opts, cin, stack, cout, cerr>>

Seqs(S, n) == UNION {[1..k -> S] : k \in 0..n}

OptsSet == [once : BOOLEAN, files : {<<InitScalc>>, <<InitScalc, PathS>>}]

InputLines ==
  {LEmpty, LAssign, LSyntax, LPartial, LReadZ, LSource, LUnclosed, LExit, LHelp}

\* The state main sets up before its first startup file.
Start ==
  /\ variables = (Ans :> Num(0))
  /\ stack = <<>>
  /\ main = [pc |-> "files", k |-> 1]
  /\ cout = <<>>
  /\ cerr = <<>>

\* One expression line, on the initial environment or after `y = 3`.
CalcStreams == {pre \o <<line>> : pre \in {<<>>, <<LY3>>}, line \in ExprLines}

Init ==
  /\ Start
  /\ opts \in OptsSet
  /\ cin \in Seqs(InputLines, MaxLines) \cup CalcStreams

Next ==
  \/ MainStartupFile
  \/ MainInteractive
  \/ MainReturn
  \/ ReadEOF
  \/ ReadEmpty
  \/ ReadCommand
  \/ SourceFile
  \/ ReadExpression

Spec == Init /\ [][Next]_vars

\* Sessions whose interactive lines source the files that source themselves
\* or each other.
DepthLines == {LSourceA, LSourceB, LIncr}

InitDepth ==
  /\ Start
  /\ opts \in OptsSet
  /\ cin \in Seqs(DepthLines, MaxDepthLines)

SpecDepth == InitDepth /\ [][Next]_vars

\* scalc started without arguments on one line of arithmetic: every text
\* of at most MaxExprLen characters of ExprAlphabet, and three spaced
\* examples.
MaxExprLen == 5

ExprAlphabet == {"2", "+", "-", "*", "/", "(", ")"}

ExprTexts == UNION {[1..k -> ExprAlphabet] : k \in 1..MaxExprLen}

ExprExamples == {EPrec, ELeft, ENegNeg}

InitExpr ==
  /\ Start
  /\ opts = [once |-> FALSE, files |-> <<InitScalc>>]
  /\ cin \in {<<t>> : t \in ExprTexts \cup ExprExamples}

NextExpr ==
  \/ MainStartupFile
  \/ MainInteractive
  \/ MainReturn
  \/ ReadEOF
  \/ ReadExpression

SpecExpr == InitExpr /\ [][NextExpr]_vars

\* scalc started without arguments on one `:` line: `:` followed by every
\* text of at most MaxCmdLen characters of CmdAlphabet, and the line
\* `:file "a b.txt" 'c.txt'`.
MaxCmdLen == 6

CmdAlphabet == {"f", " ", "\"", "'", "\\"}

CmdTexts == UNION {[1..k -> CmdAlphabet] : k \in 0..MaxCmdLen}

LQuoted ==
  <<":", "f", "i", "l", "e", " ", "\"", "a", " ", "b", ".", "t", "x", "t", "\"",
    " ", "'", "c", ".", "t", "x", "t", "'">>

InitCmd ==
  /\ Start
  /\ opts = [once |-> FALSE, files |-> <<InitScalc>>]
  /\ cin \in {<<<<":">> \o t>> : t \in CmdTexts} \cup {<<LQuoted>>}

NextCmd ==
  \/ MainStartupFile
  \/ MainInteractive
  \/ MainReturn
  \/ ReadEOF
  \/ ReadCommand
  \/ SourceFile

SpecCmd == InitCmd /\ [][NextCmd]_vars

(***************************************************************************)
(* Properties                                                              *)
(***************************************************************************)
IsExpression(line) == line # <<>> /\ line[1] # ":"

IsCommand(line) == line # <<>> /\ line[1] = ":"

\* The top call is about to read a line (not the end) of its stream.
AboutToRead == AtRead /\ Top.pos < Len(Content(Top))

\* The interactive call is active; it is stack[1].
Interactive == main.pc = "interactive" /\ stack # <<>>

UnclosedQuoteError == [msg |-> "Unclosed quote in input string.", arg |-> <<>>]

\* C1: no line aborts the session: an error raised by a line, unclosed
\* quotes of a `:` command included, never ends main abnormally.
C1_NoLineAbortsSession == main.pc # "terminated"

\* C2: with once set, the interactive loop ends only at the end of the
\* stream, on `:exit`, or with the evaluation of an expression line: empty
\* lines and other `:` commands read before it do not end the loop.
C2_OnceEndsOnExpression ==
  [][(/\ opts.once
      /\ Interactive
      /\ stack' = <<>>
      /\ main'.pc = "interactive")
     => /\ AtRead
        /\ \/ Top.pos = Len(cin)
           \/ IsExpression(NextLine)
           \/ /\ IsCommand(NextLine)
              /\ ~commandsDivide(NextLine).thrown
              /\ commandsDivide(NextLine).terms # <<>>
              /\ commandsDivide(NextLine).terms[1]
                   \in {<<"e">>, <<"e", "x", "i", "t">>}]_vars

\* The work left in main: the startup files not yet opened, then the
\* interactive call, then the return.
MainRank ==
  CASE main.pc = "files" -> 3 + Len(opts.files) - main.k
    [] main.pc = "interactive" -> 1
    [] OTHER -> 0

\* The work left in the loops of one active call: the lines not yet read
\* (plus 1, so that an active call ranks above none), and inside a `:file`
\* command the paths not yet opened.
LinesLeft(f) == 1 + Len(Content(f)) - f.pos

PathsLeft(f) == IF f.pc = "file" THEN Len(f.terms) + 2 - f.i ELSE 0

\* The ranks of the active calls as one vector, outermost call first, two
\* entries per call.
RankAt(stk, k) ==
  IF (k + 1) \div 2 > Len(stk) THEN 0
  ELSE IF k % 2 = 1 THEN LinesLeft(stk[(k + 1) \div 2])
  ELSE PathsLeft(stk[(k + 1) \div 2])

\* stk2 is below stk1 in the lexicographic order of the rank vectors.
LexLess(stk2, stk1) ==
  \E k \in 1..(2 * (MAX_DEPTH + 1)) :
    /\ RankAt(stk2, k) < RankAt(stk1, k)
    /\ \A j \in 1..(k - 1) : RankAt(stk2, j) = RankAt(stk1, j)

\* C3: sourcing files that source themselves or each other terminates
\* without error.  No process call is active at a depth above MAX_DEPTH, so
\* the ranks of the active calls form a vector of bounded length, and every step lowers main's rank or that vector in the
\* lexicographic order: no run is infinite.  Every call down to depth
\* MAX_DEPTH processes its lines: `:file a` alone runs the second line of a
\* once at each depth 1..MAX_DEPTH, and `:f b` that of b at each odd depth.
C3_SourcingTerminates ==
  /\ [](/\ Len(stack) <= MAX_DEPTH + 1
        /\ \A k \in DOMAIN stack : stack[k].depth = k - 1)
  /\ [](main.pc # "terminated")
  /\ [][\/ MainRank' < MainRank
        \/ MainRank' = MainRank /\ LexLess(stack', stack)]_vars
  /\ []((main.pc = "done" /\ opts.files = <<InitScalc>> /\ cin = <<LSourceA>>)
          => variables[Ans] = Num(MAX_DEPTH))
  /\ []((main.pc = "done" /\ opts.files = <<InitScalc>> /\ cin = <<LSourceB>>)
          => variables[Ans] = Num((MAX_DEPTH + 1) \div 2))

\* The call of a at depth MAX_DEPTH has run its `:file a`, which opened a
\* and returned from process without a new call.
C3_Witness ==
  /\ stack # <<>>
  /\ Top.depth = MAX_DEPTH
  /\ Top.path = PathA
  /\ Top.pc = "file"
  /\ Top.i > Len(Top.terms)

VarX == <<"x">>

VarY == <<"y">>

VarZ == <<"z">>

VarW == <<"w">>

Bound(name, v) == name \in DOMAIN variables /\ variables[name] = v

BoundNext(name, v) == name \in DOMAIN variables' /\ variables'[name] = v

ErrorReport(what) == [text |-> "Error: ", what |-> what]

\* The interactive call has just finished line p of cin and is back at the
\* top of its loop.
JustRead(p) ==
  /\ Interactive
  /\ Len(stack) = 1
  /\ stack[1].pc = "read"
  /\ stack[1].pos = p
  /\ p >= 1

\* C4: every process call works on the one environment.  d, sourced from
\* e, computes z = x + 1 from the x that e bound before sourcing it; after
\* `:file nofile e` has returned, a later interactive line `z` reads the z
\* bound two calls deeper; the interactive call sees the w bound by the
\* startup file s.
C4_SharedEnvironment ==
  /\ \A k \in DOMAIN stack :
       (~stack[k].write /\ stack[k].path = PathD /\ stack[k].pos = 1)
         => /\ Bound(VarX, Num(1))
            /\ Bound(VarZ, Num(2))
  /\ \A p \in 1..Len(cin) :
       (JustRead(p) /\ cin[p] = LReadZ /\ \E j \in 1..(p - 1) : cin[j] = LSource)
         => /\ Bound(VarZ, Num(2))
            /\ Bound(Ans, Num(2))
            /\ cout[Len(cout)] = [out |-> "Ans: ", value |-> Num(2)]
  /\ (Interactive /\ opts.files = <<InitScalc, PathS>>) => Bound(VarW, Num(3))

C4_Witness ==
  /\ JustRead(3)
  /\ cin = <<LAssign, LSource, LReadZ>>
  /\ opts.files = <<InitScalc, PathS>>
  /\ Bound(VarZ, Num(2))
  /\ Bound(VarX, Num(1))
  /\ Bound(VarW, Num(3))
  /\ Bound(Ans, Num(2))

\* The name a line assigns to when it has the form `name = ...`, <<>> for
\* any other line.
AssignTarget(line) ==
  IF /\ ~getNextToken(line, 1).thrown
     /\ getNextToken(line, 1).tok.type = "IDENTIFIER"
     /\ ~getNextToken(line, getNextToken(line, 1).pos).thrown
     /\ getNextToken(line, getNextToken(line, 1).pos).tok.type = "EQUAL"
  THEN getNextToken(line, 1).tok.value
  ELSE <<>>

\* C5: when an expression line evaluates without error, Ans is bound to
\* its result: to the value printed in the interactive call, and in every
\* call to the value of the line as written; the target of a line of the
\* form `name = E` is then bound to the same value.
C5_AnsBoundToResult ==
  [][(AboutToRead /\ IsExpression(NextLine) /\ cerr' = cerr)
     => /\ Ans \in DOMAIN variables'
        /\ Top.write
             => cout'[Len(cout')] = [out |-> "Ans: ", value |-> variables'[Ans]]
        /\ \E ord \in ArgOrders :
             /\ ~calculate(NextLine, variables, ord).thrown
             /\ calculate(NextLine, variables, ord).val = variables'[Ans]
        /\ AssignTarget(NextLine) # <<>>
             => BoundNext(AssignTarget(NextLine), variables'[Ans])]_vars

C5_Witness ==
  /\ \E p \in 1..Len(cin) : JustRead(p) /\ cin[p] = LAssign
  /\ Bound(VarX, Num(7))
  /\ Bound(Ans, Num(7))
  /\ cout[Len(cout)] = [out |-> "Ans: ", value |-> Num(7)]

\* C6: a line that fails to tokenize or parse changes no binding, Ans
\* included; the error is reported and the call goes on with its loop.
C6_ParseErrorKeepsBindings ==
  [][(AboutToRead /\ IsExpression(NextLine)
        /\ Parse(AnsPrefix \o NextLine).thrown)
     => /\ variables' = variables
        /\ cerr' = Append(cerr, ErrorReport(Parse(AnsPrefix \o NextLine).what))
        /\ stack' = loopCondition([Top EXCEPT !.pos = @ + 1])
        /\ main' = main]_vars

\* `1 +` was reported and left Ans at 0, and the next line `x = 7` was
\* evaluated.
C6_Witness ==
  /\ JustRead(2)
  /\ cin[1] = LSyntax
  /\ cin[2] = LAssign
  /\ Len(cerr) = 1
  /\ cerr[1].what.msg = "Unexpected token: "
  /\ variables = (VarX :> Num(7)) @@ (Ans :> Num(7))

UndefinedY == [msg |-> "Undefined variable: ", arg |-> VarY]

\* C7 as stated: `x = 5 + y` with y undefined fails and leaves x bound.
C7_Original ==
  [][(AboutToRead /\ NextLine = EXPlusY /\ VarY \notin DOMAIN variables)
     => /\ cerr' = Append(cerr, ErrorReport(UndefinedY))
        /\ VarX \in DOMAIN variables']_vars

\* C7 amended: with y undefined, `(x = 5) + y` fails and leaves x bound
\* to 5, the assignment having been evaluated before the read of y; `x = 5
\* + y` fails and changes no binding, the read of y being part of the
\* right-hand side that is evaluated before x is assigned.
C7_AssignmentsNotRolledBack ==
  [][(AboutToRead /\ VarY \notin DOMAIN variables)
     => /\ NextLine = LPartial
             => /\ cerr' = Append(cerr, ErrorReport(UndefinedY))
                /\ variables' = Bind(variables, VarX, Num(5))
        /\ NextLine = EXPlusY
             => /\ cerr' = Append(cerr, ErrorReport(UndefinedY))
                /\ variables' = variables]_vars

C7_Witness ==
  /\ JustRead(1)
  /\ cin[1] = LPartial
  /\ cerr = <<ErrorReport(UndefinedY)>>
  /\ variables = (VarX :> Num(5)) @@ (Ans :> Num(0))

\* The number of `(` minus the number of `)` in line[1..i].
RECURSIVE ParenDepth(_, _)
ParenDepth(line, i) ==
  IF i = 0 THEN 0
  ELSE ParenDepth(line, i - 1)
         + (IF line[i] = "(" THEN 1 ELSE IF line[i] = ")" THEN -1 ELSE 0)

\* A `)` without an open `(` before it, or a `(` that is never closed.
Unmatched(line) ==
  \/ \E i \in 1..Len(line) : ParenDepth(line, i) < 0
  \/ ParenDepth(line, Len(line)) > 0

\* C8: an expression line with unmatched parentheses fails with a parse
\* error: no result is printed and no binding changes.
C8_UnmatchedParenFails ==
  [][(AboutToRead /\ IsExpression(NextLine) /\ Unmatched(NextLine))
     => /\ variables' = variables
        /\ Len(cerr') = Len(cerr) + 1
        /\ cerr'[Len(cerr')].what.msg = "Unexpected token: "
        /\ cout' = Prompt(Top)]_vars

(***************************************************************************)
(* The reference evaluation of a text of digits, + - * / and parentheses   *)
(* without spaces: split at the last binary + or - outside parentheses,    *)
(* else at the last * or / outside parentheses, else take a leading - as   *)
(* negation, else strip one enclosing pair of parentheses, else read a     *)
(* decimal number.                                                         *)
(***************************************************************************)
RefInvalid == [ok |-> FALSE]

RefValue(v) == [ok |-> TRUE, val |-> v]

TopLevel(t, i) == ParenDepth(t, i - 1) = 0

\* A + or - is binary when an operand ends just before it.
BinaryAdd(t) ==
  {i \in 2..Len(t) : /\ t[i] \in {"+", "-"}
                     /\ TopLevel(t, i)
                     /\ t[i - 1] \in Digits \cup {")"}}

BinaryMul(t) == {i \in 1..Len(t) : t[i] \in {"*", "/"} /\ TopLevel(t, i)}

LastOf(S) == CHOOSE i \in S : \A j \in S : j <= i

RefApply(op, a, b) ==
  IF ~a.ok \/ ~b.ok THEN RefInvalid
  ELSE CASE op = "+" -> RefValue(Add(a.val, b.val))
         [] op = "-" -> RefValue(Sub(a.val, b.val))
         [] op = "*" -> RefValue(Mul(a.val, b.val))
         [] op = "/" -> RefValue(Div(a.val, b.val))

RefNeg(a) == IF a.ok THEN RefValue(Neg(a.val)) ELSE RefInvalid

RECURSIVE RefNum(_)
RefNum(t) ==
  IF Len(t) = 1 THEN DigitVal(t[1])
  ELSE 10 * RefNum(SubSeq(t, 1, Len(t) - 1)) + DigitVal(t[Len(t)])

\* t is ( ... ) with the first parenthesis closed by the last.
Enclosed(t) ==
  /\ Len(t) >= 2
  /\ t[1] = "("
  /\ t[Len(t)] = ")"
  /\ ParenDepth(t, Len(t)) = 0
  /\ \A i \in 1..(Len(t) - 1) : ParenDepth(t, i) > 0

RECURSIVE RefEval(_), RefSplit(_, _)
RefSplit(t, i) ==
  RefApply(t[i], RefEval(SubSeq(t, 1, i - 1)), RefEval(SubSeq(t, i + 1, Len(t))))

RefEval(t) ==
  IF t = <<>> THEN RefInvalid
  ELSE IF BinaryAdd(t) # {} THEN RefSplit(t, LastOf(BinaryAdd(t)))
  ELSE IF BinaryMul(t) # {} THEN RefSplit(t, LastOf(BinaryMul(t)))
  ELSE IF t[1] = "-" THEN RefNeg(RefEval(Tail(t)))
  ELSE IF Enclosed(t) THEN RefEval(SubSeq(t, 2, Len(t) - 1))
  ELSE IF \A i \in 1..Len(t) : t[i] \in Digits THEN RefValue(Num(RefNum(t)))
  ELSE RefInvalid

\* The interactive call has finished its first line.
FirstLineRead ==
  \/ main.pc = "done"
  \/ stack # <<>> /\ stack[1].write /\ stack[1].pos >= 1

Printed(v) ==
  /\ cerr = <<>>
  /\ Bound(Ans, v)
  /\ Len(cout) >= 2
  /\ cout[2] = [out |-> "Ans: ", value |-> v]

\* C9: a line that the reference evaluation accepts is parsed and
\* evaluated without error to the reference value, which is printed and
\* bound to Ans; `1 + 2 * 3` gives 7, `2 - 3 - 4` gives -5 and `--3` gives 3.
C9_PrecedenceAndAssociativity ==
  (Len(cin) = 1 /\ FirstLineRead)
    => /\ RefEval(cin[1]).ok => Printed(RefEval(cin[1]).val)
       /\ cin[1] = EPrec => Printed(Num(7))
       /\ cin[1] = ELeft => Printed(Sub(Num(0), Num(5)))
       /\ cin[1] = ENegNeg => Printed(Num(3))

\* 2-2*2 was read as 2 - (2 * 2) and 2/2/2 would be (2 / 2) / 2.
C9_Witness ==
  /\ main.pc = "done"
  /\ cin = << <<"2", "-", "2", "*", "2">> >>
  /\ RefEval(cin[1]).ok
  /\ Printed(Sub(Num(0), Num(2)))

(***************************************************************************)
(* The terms of the text r that follows the `:` of a command line, by the  *)
(* role of each character: an escaping backslash, a delimiting quote, a    *)
(* separating space, or a character of a term.                             *)
(***************************************************************************)
\* r[i] follows a backslash that is not itself escaped.
RECURSIVE Escaped(_, _)
Escaped(r, i) == i > 1 /\ r[i - 1] = "\\" /\ ~Escaped(r, i - 1)

Escaping(r, i) == r[i] = "\\" /\ ~Escaped(r, i)

\* The open quote after the character c, q being the open quote before it
\* ("" when none is open).
QuoteAfter(q, c, escaped) ==
  IF escaped \/ c \notin {"\"", "'"} THEN q
  ELSE IF q = "" THEN c
  ELSE IF q = c THEN ""
  ELSE q

\* The quote that is open after r[1..i].
RECURSIVE OpenQuote(_, _)
OpenQuote(r, i) ==
  IF i = 0 THEN ""
  ELSE QuoteAfter(OpenQuote(r, i - 1), r[i], Escaped(r, i))

Closed(r) == OpenQuote(r, Len(r)) = ""

\* r[i] opens or closes a quoted region.
Delimiting(r, i) ==
  /\ r[i] \in {"\"", "'"}
  /\ ~Escaped(r, i)
  /\ OpenQuote(r, i - 1) \in {"", r[i]}

Separating(r, i) ==
  /\ r[i] = " "
  /\ ~Escaped(r, i)
  /\ OpenQuote(r, i - 1) = ""

Kept(r, i) == ~Escaping(r, i) /\ ~Delimiting(r, i) /\ ~Separating(r, i)

\* The kept characters of r[a..b].
RECURSIVE KeptText(_, _, _)
KeptText(r, a, b) ==
  IF a > b THEN <<>>
  ELSE IF Kept(r, a) THEN <<r[a]>> \o KeptText(r, a + 1, b)
  ELSE KeptText(r, a + 1, b)

\* The first separating space after position a, Len(r) + 1 when none.
NextSeparator(r, a) ==
  CHOOSE b \in (a + 1)..(Len(r) + 1) :
    /\ b = Len(r) + 1 \/ Separating(r, b)
    /\ \A j \in (a + 1)..(b - 1) : ~Separating(r, j)

NonEmpty(term) == IF term = <<>> THEN <<>> ELSE <<term>>

\* The non-empty terms of r after position a, a separating space or 0.
RECURSIVE RefTermsFrom(_, _), RefTermsUpTo(_, _, _)
RefTermsUpTo(r, a, b) ==
  NonEmpty(KeptText(r, a + 1, b - 1))
    \o (IF b > Len(r) THEN <<>> ELSE RefTermsFrom(r, b))

RefTermsFrom(r, a) == RefTermsUpTo(r, a, NextSeparator(r, a))

RefTerms(r) == RefTermsFrom(r, 0)

CannotOpen(path) ==
  [text |-> "Error: Cannot open file ", what |-> [msg |-> "", arg |-> path]]

IsFileCommand(terms) ==
  terms # <<>> /\ terms[1] \in {<<"f">>, <<"f", "i", "l", "e">>}

\* What the driver does with the terms of a command line none of whose
\* paths names a file: the terms are those of every :file loop, and
\* when main has returned each path after the first term was reported
\* once, in order, as a file that cannot be opened.
DriverUses(terms) ==
  /\ main.pc # "terminated"
  /\ \A k \in DOMAIN stack : stack[k].pc = "file" => stack[k].terms = terms
  /\ main.pc = "done"
       => cerr = IF IsFileCommand(terms)
                 THEN [k \in 1..(Len(terms) - 1) |-> CannotOpen(terms[k + 1])]
                 ELSE <<>>

\* C10: for a `:` line with closed quotes, commandsDivide returns the
\* non-empty terms between separating spaces (unquoted, unescaped), in
\* order, with escaping backslashes and delimiting quotes removed and every
\* other character kept; no term is empty; the driver works on these terms.
C10_CommandTerms ==
  (Len(cin) = 1 /\ IsCommand(cin[1]) /\ Closed(Tail(cin[1])))
    => /\ commandsDivide(cin[1])
            = [thrown |-> FALSE, terms |-> RefTerms(Tail(cin[1]))]
       /\ \A k \in DOMAIN commandsDivide(cin[1]).terms :
            commandsDivide(cin[1]).terms[k] # <<>>
       /\ DriverUses(RefTerms(Tail(cin[1])))

\* `:file "a b.txt" 'c.txt'` was split into file, `a b.txt` and `c.txt`,
\* and the two paths were tried in order.
C10_Witness ==
  /\ main.pc = "done"
  /\ cin = <<LQuoted>>
  /\ RefTerms(Tail(LQuoted))
       = << <<"f", "i", "l", "e">>,
            <<"a", " ", "b", ".", "t", "x", "t">>,
            <<"c", ".", "t", "x", "t">> >>
  /\ cerr = << CannotOpen(<<"a", " ", "b", ".", "t", "x", "t">>),
               CannotOpen(<<"c", ".", "t", "x", "t">>) >>

\* sub occurs in text as a run of consecutive characters.
Occurs(sub, text) ==
  \E i \in 0..(Len(text) - Len(sub)) : SubSeq(text, i + 1, i + Len(sub)) = sub

\* Calls that match no built-in, with the name called and the number of
\* arguments supplied, as a decimal text.
UnknownCalls ==
  (EPowOne :> [name |-> <<"p", "o", "w">>, count |-> <<"1">>])
    @@ (EUnknown :> [name |-> <<"f", "o", "o">>, count |-> <<"1">>])
    @@ (EUnknownY :> [name |-> <<"s", "i", "n">>, count |-> <<"2">>])

\* C11: a call that matches no built-in prints no result and is reported
\* as an unknown function in a message that shows the name called and the
\* number of arguments supplied.
C11_UnknownNamesCount ==
  [][(AboutToRead /\ NextLine \in DOMAIN UnknownCalls)
     => /\ cout' = Prompt(Top)
        /\ Len(cerr') = Len(cerr) + 1
        /\ cerr'[Len(cerr')].what.msg = "Unknown function: "
        /\ Occurs(UnknownCalls[NextLine].name, cerr'[Len(cerr')].what.arg)
        /\ Occurs(UnknownCalls[NextLine].count, cerr'[Len(cerr')].what.arg)]_vars

\* C12: the operands of a binary operator and the arguments of a
\* two-argument call are evaluated, and their assignments committed, from
\* left to right: `(x = 1) + (x = 2)` and `pow(x = 1, x = 2)` both succeed
\* and leave x bound to 2.
C12_LeftToRight ==
  [][(AboutToRead /\ NextLine \in {ETwice, EPowAssign})
     => /\ cerr' = cerr
        /\ BoundNext(VarX, Num(2))]_vars

\* The top call is in the loop of a `:file` command, at a path.
AtPath == stack # <<>> /\ Top.pc = "file" /\ Top.i <= Len(Top.terms)

\* The top call has tried every path of its `:file` command.
PathsDone == stack # <<>> /\ Top.pc = "file" /\ Top.i > Len(Top.terms)

\* C13: in a `:file` command a path that cannot be opened is reported, for
\* that path only, and the loop moves to the next path; a path that can be
\* opened is processed whatever happened to the paths before it; after the
\* last path the stream that issued the command reads its next line.
C13_UnopenablePathOnly ==
  [][/\ (AtPath /\ Top.terms[Top.i] \notin DOMAIN FS)
          => /\ cerr' = Append(cerr, CannotOpen(Top.terms[Top.i]))
             /\ stack' = Append(Pop, [Top EXCEPT !.i = @ + 1])
             /\ variables' = variables
     /\ (AtPath /\ Top.terms[Top.i] \in DOMAIN FS /\ Top.depth < MAX_DEPTH)
          => /\ cerr' = cerr
             /\ stack' = Append(Append(Pop, [Top EXCEPT !.i = @ + 1]),
                                Frame(Top.terms[Top.i], FALSE, Top.depth + 1))
     /\ PathsDone
          => stack' = Append(Pop, [Top EXCEPT !.pc = "read", !.terms = <<>>,
                                               !.i = 0])]_vars

\* The tokens of line from cursor pos, up to its end or to the first
\* character the lexer rejects.
RECURSIVE TokensFrom(_, _), TokensAfter(_, _)
TokensAfter(line, t) ==
  IF t.thrown \/ t.tok.type = "END" THEN <<>>
  ELSE <<t.tok>> \o TokensFrom(line, t.pos)

TokensFrom(line, pos) == TokensAfter(line, getNextToken(line, pos))

NamesBeforeEqual(toks) ==
  {toks[i].value : i \in {j \in 1..(Len(toks) - 1) :
                            /\ toks[j].type = "IDENTIFIER"
                            /\ toks[j + 1].type = "EQUAL"}}

\* The names that are written just before an `=` in the line.
AssignedNames(line) == NamesBeforeEqual(TokensFrom(line, 1))

UndefinedVariable(name) == [msg |-> "Undefined variable: ", arg |-> name]

\* C14: the line `y` (or `z`) read while that name is unbound prints no
\* result, reports the undefined variable and changes no binding, so the
\* name stays unbound; and a name becomes bound only on a step that
\* evaluates an expression line in which the name is assigned.
C14_UndefinedVariable ==
  [][/\ \A line \in {EReadY, LReadZ} :
          (AboutToRead /\ NextLine = line /\ line \notin DOMAIN variables)
            => /\ cerr' = Append(cerr, ErrorReport(UndefinedVariable(line)))
               /\ cout' = Prompt(Top)
               /\ variables' = variables
     /\ DOMAIN variables' # DOMAIN variables
          => /\ AboutToRead
             /\ IsExpression(NextLine)
             /\ (DOMAIN variables' \ DOMAIN variables)
                  \subseteq AssignedNames(NextLine)]_vars

C14_Witness ==
  /\ JustRead(1)
  /\ cin[1] = EReadY
  /\ cerr = <<ErrorReport(UndefinedVariable(VarY))>>
  /\ variables = (Ans :> Num(0))

VarA == <<"a">>

VarB == <<"b">>

\* The text that follows the first `=` of line.
AfterEqual(line) ==
  SubSeq(line,
         1 + (CHOOSE i \in 1..Len(line) :
                /\ line[i] = "="
                /\ \A j \in 1..(i - 1) : line[j] # "="),
         Len(line))

\* The value v is printed if the top call is the interactive one, and
\* bound to Ans.
ResultNext(v) ==
  /\ cerr' = cerr
  /\ BoundNext(Ans, v)
  /\ Top.write => cout' = Append(Prompt(Top), [out |-> "Ans: ", value |-> v])

\* C15: `a = b = 3` binds a and b to 3; `1 + x = 2 + 3` binds x to 5 and
\* has the value 6; a line `name = rest` that succeeds binds name to the
\* value of rest evaluated as a whole expression; and a line that is just
\* a bound name has the value the name is bound to.
C15_AssignmentRightAssociative ==
  [][AboutToRead
     => /\ NextLine = EChain
             => /\ ResultNext(Num(3))
                /\ BoundNext(VarA, Num(3))
                /\ BoundNext(VarB, Num(3))
        /\ NextLine = EInfix
             => /\ ResultNext(Num(6))
                /\ BoundNext(VarX, Num(5))
        /\ (IsExpression(NextLine) /\ AssignTarget(NextLine) # <<>>
              /\ cerr' = cerr)
             => \E ord \in ArgOrders :
                  /\ ~calculate(AfterEqual(NextLine), variables, ord).thrown
                  /\ BoundNext(AssignTarget(NextLine),
                               calculate(AfterEqual(NextLine), variables, ord).val)
        /\ \A name \in {VarY, VarZ} :
             (NextLine = name /\ name \in DOMAIN variables)
               => /\ ResultNext(variables[name])
                  /\ BoundNext(name, variables[name])]_vars

\* `1 + x = 2 + 3` was read as 1 + (x = (2 + 3)).
C15_Witness ==
  /\ JustRead(1)
  /\ cin[1] = EInfix
  /\ cerr = <<>>
  /\ variables = (VarX :> Num(5)) @@ (Ans :> Num(6))
  /\ cout[Len(cout)] = [out |-> "Ans: ", value |-> Num(6)]

\* C16: an expression line that is reported as an error and in which Ans
\* is not assigned prints no result and leaves Ans bound to the value it
\* had before the line.
C16_AnsKeptOnError ==
  [][(AboutToRead /\ IsExpression(NextLine) /\ cerr' # cerr
        /\ Ans \notin AssignedNames(NextLine))
     => /\ Len(cerr') = Len(cerr) + 1
        /\ cout' = Prompt(Top)
        /\ BoundNext(Ans, variables[Ans])]_vars

\* `x = 7` set Ans to 7; `(x = 5) + y` then failed on y after x = 5 was
\* committed, and Ans is still 7.
C16_Witness ==
  /\ JustRead(2)
  /\ cin[1] = LAssign
  /\ cin[2] = LPartial
  /\ cerr = <<ErrorReport(UndefinedVariable(VarY))>>
  /\ variables = (VarX :> Num(5)) @@ (Ans :> Num(7))

\* The file at path holds an `:exit` line.
HasExit(path) ==
  path \in DOMAIN FS /\ \E k \in 1..Len(FS[path]) : FS[path][k] = LExit

\* C17: `:exit` read in a file ends the processing of that file only: the
\* rest of the file is not read and the sourcing call is back in the loop
\* of its `:file` command; when the paths of a command that sourced such a
\* file are done, the sourcing stream reads its following lines; and after
\* a startup file that holds `:exit` main starts the interactive loop.
C17_ExitEndsOnlyItsStream ==
  [][/\ (AboutToRead /\ ~Top.write /\ NextLine = LExit)
          => /\ stack' = Pop
             /\ UNCHANGED <<variables, main, cout, cerr>>
     /\ (PathsDone /\ \E k \in 2..Len(Top.terms) : HasExit(Top.terms[k]))
          => stack' = Append(Pop, [Top EXCEPT !.pc = "read", !.terms = <<>>,
                                               !.i = 0])
     /\ (stack = <<>> /\ main.pc = "files" /\ main.k > Len(opts.files))
          => /\ main'.pc = "interactive"
             /\ stack' = <<Frame(<<>>, TRUE, 0)>>]_vars

UnknownFunction(name) == [msg |-> "Unknown function: ", arg |-> name]

\* C18: a call that matches no built-in fails before any of its arguments
\* is evaluated: `foo(q = 1)` leaves q unbound and changes no binding, and
\* `sin(2, y)` with y unbound is reported as the unknown function sin, not
\* as the undefined variable y.
C18_UnknownCallEvaluatesNothing ==
  [][(AboutToRead /\ NextLine \in DOMAIN UnknownCalls)
     => /\ cerr' = Append(cerr,
                          ErrorReport(UnknownFunction(UnknownCalls[NextLine].name)))
        /\ variables' = variables
        /\ (AssignedNames(NextLine) \ DOMAIN variables)
             \cap DOMAIN variables' = {}]_vars

C18_Witness ==
  /\ \E p \in 1..Len(cin) : JustRead(p) /\ cin[p] = EUnknown
  /\ cerr = <<ErrorReport(UnknownFunction(<<"f", "o", "o">>))>>
  /\ <<"q">> \notin DOMAIN variables
  /\ Bound(Ans, Num(0))

\* C19: Ans is bound in every state, to 0 until the first startup file
\* is processed, and no step removes a name from the environment.
C19_BindingsOnlyGrow ==
  /\ [](Ans \in DOMAIN variables)
  /\ []((main.pc = "files" /\ main.k = 1) => variables = (Ans :> Num(0)))
  /\ [][DOMAIN variables \subseteq DOMAIN variables']_vars

\* The session ended with the names bound by the startup file s, by the
\* files e and d and by the lines typed.
C19_Witness ==
  /\ main.pc = "done"
  /\ DOMAIN variables = {Ans, VarW, VarX, VarZ}
  /\ Len(cin) = 3
  /\ cin[3] = LAssign

====
